---- MODULE Spec2Model ----
(***************************************************************************)
(* Notes application: the note/tag collection manager of src/App.tsx and   *)
(* the filtered view of src/NoteList.tsx.                                  *)
(*                                                                         *)
(* Every action is one handler run to completion together with the         *)
(* re-render that follows it: React renders App again after each state     *)
(* change, and App's body installs defaultTags whenever tags is empty.     *)
(*                                                                         *)
(* Ids are strings produced by uuidV4(); they are modelled as naturals,    *)
(* the n-th call of uuidV4() returning n (the library's contract: a value  *)
(* never returned before).  Titles are sequences of one-character strings  *)
(* so that toLowerCase() and includes() are computed, not assumed.         *)
(*                                                                         *)
(* useLocalStorage is imported by App.tsx but its file is not part of the  *)
(* sources at hand; its read and write follow the specification's          *)
(* Persistent Store Accessor.                                              *)
(*                                                                         *)
(* The state space of all handlers together is too large to enumerate, so  *)
(* several specifications are given, each the handlers of one concern:     *)
(*   SpecTags    the tag handlers                                          *)
(*   SpecNotes   the note handlers                                         *)
(*   Spec        the note and tag handlers together                        *)
(*   SpecList    NoteList's tag filter over notes and tag deletions        *)
(*   SpecSearch  NoteList's title search over notes                        *)
(***************************************************************************)
EXTENDS Naturals, Sequences, FiniteSets

VARIABLES
  mounted,       \* App has been mounted and rendered
  storage,       \* the browser's local storage, keys "NOTES" and "TAGS"
  uuidCount,     \* number of uuidV4() calls made so far
  notes,         \* App state: RawNote[]
  tags,          \* App state: Tag[]
  selectedTags,  \* NoteList state: Tag[]
  title,         \* NoteList state: string
  op             \* history: the last operation applied and its id argument

vars == <<mounted, storage, uuidCount, notes, tags, selectedTags, title, op>>

----------------------------------------------------------------------------
(* Bounds of the model *)

\* uuidV4() is called at most MaxUuid times (4 calls build defaultTags)
MaxUuid == 6
\* a note form submits at most MaxNoteTags tags
MaxNoteTags == 2
\* the tag list holds at most MaxTags tags
MaxTags == 4
\* the tag filter holds at most MaxSelected tags
MaxSelected == 2

----------------------------------------------------------------------------
(* Input domains *)

\* (title, markdown) pairs a note form submits
NoteTexts ==
  { [title |-> <<"A", "b">>, markdown |-> "m1"],
    [title |-> <<"b">>,      markdown |-> "m2"] }

\* what is typed into "Search by Title"
FilterTitles == { <<>>, <<"a">>, <<"A">>, <<"B">>, <<"a", "B">>, <<"B", "a">> }

\* labels typed by the user for a tag
UserLabels == { "Misc" }

\* ids a caller of deleteTag passes: every default tag and one more
TagIdInputs == 1 .. 5

\* ids of the tags the user creates and renames: one default tag's id and
\* one id of the user's own
EditIds == { 1, 5 }

\* ids of the tags the user attaches to notes and filters by
PickIds == { 1, 2 }

\* ids a caller of onUpdateNote / onDeleteNote passes: every id uuidV4() can
\* have given to a note
NoteIdInputs == 5 .. MaxUuid

----------------------------------------------------------------------------
(* Sequence helpers (Array.prototype.map / filter / some / every / includes) *)

Range(s) == { s[i] : i \in DOMAIN s }

IdsOf(s) == { s[i].id : i \in DOMAIN s }

\* injective index sequences of length at most k into 1..n
IndexSeqs(n, k) ==
  UNION { { s \in [1 .. m -> 1 .. n] : \A i, j \in 1 .. m : i # j => s[i] # s[j] }
          : m \in 0 .. k }

\* the tag lists a note form can submit: distinct entries of the available
\* tags, in any order, taken among the tags the user picks
TagChoices(available) ==
  { [i \in DOMAIN s |-> available[s[i]]]
    : s \in { q \in IndexSeqs(Len(available), MaxNoteTags) :
                \A i \in DOMAIN q : available[q[i]].id \in PickIds } }

----------------------------------------------------------------------------
(* src/App.tsx *)

\* const defaultTags: four tags whose ids are the first four uuidV4() values
defaultTags ==
  << [id |-> 1, label |-> "Work"],
     [id |-> 2, label |-> "Important"],
     [id |-> 3, label |-> "Personal"],
     [id |-> 4, label |-> "Ideas"] >>

\* uuidV4(): the next value never returned before
uuidV4(count) == count + 1

\* useLocalStorage(key, initialValue), the read done at mount: the stored
\* value, or initialValue when nothing (or nothing decodable) is stored
useLocalStorage(store, key, initialValue) ==
  IF store[key].kind = "json" THEN store[key].value ELSE initialValue

\* the write-through of useLocalStorage: both collections are stored
persist(ns, ts) ==
  [NOTES |-> [kind |-> "json", value |-> ns],
   TAGS  |-> [kind |-> "json", value |-> ts]]

\* mutation: the tag list is left as it is when empty
renderTags_NoDefaults(ts) == ts

\* App body: if (tags.length === 0) setTags(defaultTags), then re-render
renderTags(ts) == IF Len(ts) = 0 THEN defaultTags ELSE ts

\* tags.map((tag) => tag.id)
tagIdsOf(ts) == [i \in DOMAIN ts |-> ts[i].id]

\* mutation: the tags are looked up id by id, in the order of note.tagIds
notesWithTags_ByTagIdOrder(ns, ts) ==
  [i \in DOMAIN ns |->
     [id       |-> ns[i].id,
      title    |-> ns[i].title,
      markdown |-> ns[i].markdown,
      tagIds   |-> ns[i].tagIds,
      tags     |-> LET found == SelectSeq(ns[i].tagIds, LAMBDA t : t \in IdsOf(ts))
                   IN  [k \in DOMAIN found |->
                          ts[CHOOSE j \in DOMAIN ts : ts[j].id = found[k]]]]]

\* useMemo notesWithTags: each note with the tags it references resolved
notesWithTags(ns, ts) ==
  [i \in DOMAIN ns |->
     [id       |-> ns[i].id,
      title    |-> ns[i].title,
      markdown |-> ns[i].markdown,
      tagIds   |-> ns[i].tagIds,
      tags     |-> SelectSeq(ts, LAMBDA tag : tag.id \in Range(ns[i].tagIds))]]

\* mutation: the id is generated once, when the module is loaded
onCreateNoteUpdate_FixedId(prev, data, newId) ==
  Append(prev, [id       |-> Len(defaultTags) + 1,
                title    |-> data.title,
                markdown |-> data.markdown,
                tagIds   |-> tagIdsOf(data.tags)])

\* onCreateNote's updater: prev => [...prev, {...data, id: uuidV4(), tagIds}]
onCreateNoteUpdate(prev, data, newId) ==
  Append(prev, [id       |-> newId,
                title    |-> data.title,
                markdown |-> data.markdown,
                tagIds   |-> tagIdsOf(data.tags)])

\* mutation: the id test is lost, every note takes the data
onUpdateNoteUpdate_AllNotes(prev, id, data) ==
  [i \in DOMAIN prev |->
     [id       |-> prev[i].id,
      title    |-> data.title,
      markdown |-> data.markdown,
      tagIds   |-> tagIdsOf(data.tags)]]

\* onUpdateNote's updater: prev.map(note => note.id === id ? {...} : note)
onUpdateNoteUpdate(prev, id, data) ==
  [i \in DOMAIN prev |->
     IF prev[i].id = id
       THEN [id       |-> prev[i].id,
             title    |-> data.title,
             markdown |-> data.markdown,
             tagIds   |-> tagIdsOf(data.tags)]
       ELSE prev[i]]

\* onDeleteNote's updater: prev.filter(note => note.id !== id)
onDeleteNoteUpdate(prev, id) == SelectSeq(prev, LAMBDA note : note.id # id)

\* mutation: a tag that is not found is created
updateTagUpdate_Upsert(prev, id, label) ==
  IF id \in IdsOf(prev)
    THEN [i \in DOMAIN prev |->
            IF prev[i].id = id THEN [id |-> prev[i].id, label |-> label] ELSE prev[i]]
    ELSE Append(prev, [id |-> id, label |-> label])

\* updateTag's updater: prev.map(tag => tag.id === id ? {...tag, label} : tag)
updateTagUpdate(prev, id, label) ==
  [i \in DOMAIN prev |->
     IF prev[i].id = id THEN [id |-> prev[i].id, label |-> label] ELSE prev[i]]

\* deleteTag's updater: prev.filter(tag => tag.id !== id)
deleteTagUpdate(prev, id) == SelectSeq(prev, LAMBDA tag : tag.id # id)

\* addTag's updater: prev => [...prev, tag]
addTagUpdate(prev, tag) == Append(prev, tag)

----------------------------------------------------------------------------
(* src/NoteList.tsx *)

\* String.prototype.toLowerCase on one character
lowerChar(c) == CASE c = "A" -> "a" [] c = "B" -> "b" [] OTHER -> c

\* String.prototype.toLowerCase
toLowerCase(s) == [i \in DOMAIN s |-> lowerChar(s[i])]

\* String.prototype.includes
includes(s, sub) ==
  \E k \in 0 .. Len(s) :
    /\ k + Len(sub) <= Len(s)
    /\ SubSeq(s, k + 1, k + Len(sub)) = sub

\* mutation: the typed title is not lower-cased
noteMatches_CaseSensitive(note, t, sel) ==
  /\ (t = <<>> \/ includes(toLowerCase(note.title), t))
  /\ (Len(sel) = 0 \/
      \A i \in DOMAIN sel :
        \E j \in DOMAIN note.tags : note.tags[j].id = sel[i].id)

\* the predicate of notes.filter(...) in filteredNotes
noteMatches(note, t, sel) ==
  /\ (t = <<>> \/ includes(toLowerCase(note.title), toLowerCase(t)))
  /\ (Len(sel) = 0 \/
      \A i \in DOMAIN sel :
        \E j \in DOMAIN note.tags : note.tags[j].id = sel[i].id)

\* useMemo filteredNotes over the props notes (= notesWithTags)
filteredNotes(ns, t, sel) == SelectSeq(ns, LAMBDA note : noteMatches(note, t, sel))

\* ReactSelect option of a tag: {label: tag.label, value: tag.id}
toOption(tag) == [label |-> tag.label, value |-> tag.id]

\* onChange: tags.map(tag => ({label: tag.label, id: tag.value}))
fromOptions(opts) == [i \in DOMAIN opts |-> [label |-> opts[i].label, id |-> opts[i].value]]

\* the view NoteList renders
view == filteredNotes(notesWithTags(notes, tags), title, selectedTags)

----------------------------------------------------------------------------
(* State machine *)

StoredValues == { [kind |-> "missing", value |-> <<>>],
                  [kind |-> "malformed", value |-> <<>>] }

Init ==
  /\ mounted = FALSE
  /\ storage \in [{"NOTES", "TAGS"} -> StoredValues]
  /\ uuidCount = Len(defaultTags)
  /\ notes = <<>>
  /\ tags = <<>>
  /\ selectedTags = <<>>
  /\ title = <<>>
  /\ op = [name |-> "init", id |-> 0]

\* the common tail of every handler: state is set, App re-renders (installing
\* defaultTags when the tag list is empty) and the collections are stored
Commit(ns, ts) ==
  /\ notes' = ns
  /\ tags' = renderTags(ts)
  /\ storage' = persist(ns, renderTags(ts))

\* NoteList is the element of the "/" route only: while another route's page
\* (NewNote, Note, EditNote) calls its handler NoteList is not mounted, and it
\* is mounted again with the initial values of its useState calls
listRemounted ==
  /\ selectedTags' = <<>>
  /\ title' = <<>>

\* App is mounted: both collections are read from storage and rendered
Load ==
  /\ ~mounted
  /\ mounted' = TRUE
  /\ Commit(useLocalStorage(storage, "NOTES", <<>>),
            useLocalStorage(storage, "TAGS", <<>>))
  /\ op' = [name |-> "load", id |-> 0]
  /\ UNCHANGED <<uuidCount, selectedTags, title>>

onCreateNote(data) ==
  /\ mounted
  /\ uuidCount < MaxUuid
  /\ uuidCount' = uuidV4(uuidCount)
  /\ Commit(onCreateNoteUpdate(notes, data, uuidV4(uuidCount)), tags)
  /\ op' = [name |-> "onCreateNote", id |-> uuidV4(uuidCount)]
  /\ listRemounted
  /\ UNCHANGED <<mounted>>

onUpdateNote(id, data) ==
  /\ mounted
  /\ Commit(onUpdateNoteUpdate(notes, id, data), tags)
  /\ op' = [name |-> "onUpdateNote", id |-> id]
  /\ listRemounted
  /\ UNCHANGED <<mounted, uuidCount>>

onDeleteNote(id) ==
  /\ mounted
  /\ Commit(onDeleteNoteUpdate(notes, id), tags)
  /\ op' = [name |-> "onDeleteNote", id |-> id]
  /\ listRemounted
  /\ UNCHANGED <<mounted, uuidCount>>

updateTag(id, label) ==
  /\ mounted
  /\ Commit(notes, updateTagUpdate(tags, id, label))
  /\ op' = [name |-> "updateTag", id |-> id]
  /\ UNCHANGED <<mounted, uuidCount, selectedTags, title>>

\* mutation: the deleted id is also removed from every note's tagIds
deleteTag_Cascade(id) ==
  /\ mounted
  /\ Commit([i \in DOMAIN notes |->
               [notes[i] EXCEPT !.tagIds = SelectSeq(@, LAMBDA t : t # id)]],
            deleteTagUpdate(tags, id))
  /\ op' = [name |-> "deleteTag", id |-> id]
  /\ UNCHANGED <<mounted, uuidCount, selectedTags, title>>

deleteTag(id) ==
  /\ mounted
  /\ Commit(notes, deleteTagUpdate(tags, id))
  /\ op' = [name |-> "deleteTag", id |-> id]
  /\ UNCHANGED <<mounted, uuidCount, selectedTags, title>>

addTag(tag) ==
  /\ mounted
  /\ Len(tags) < MaxTags
  /\ Commit(notes, addTagUpdate(tags, tag))
  /\ op' = [name |-> "addTag", id |-> tag.id]
  /\ listRemounted
  /\ UNCHANGED <<mounted, uuidCount>>

\* Form.Control onChange: setTitle(e.target.value)
setTitle(t) ==
  /\ mounted
  /\ title' = t
  /\ op' = [name |-> "setTitle", id |-> 0]
  /\ UNCHANGED <<mounted, storage, uuidCount, notes, tags, selectedTags>>

\* ReactSelect onChange with one more option chosen among availableTags
selectTag(i) ==
  /\ mounted
  /\ i \in DOMAIN tags
  /\ tags[i].id \in PickIds
  /\ Len(selectedTags) < MaxSelected
  /\ tags[i].id \notin IdsOf(selectedTags)
  /\ selectedTags' =
       fromOptions(Append([k \in DOMAIN selectedTags |-> toOption(selectedTags[k])],
                          toOption(tags[i])))
  /\ op' = [name |-> "selectTag", id |-> tags[i].id]
  /\ UNCHANGED <<mounted, storage, uuidCount, notes, tags, title>>

\* ReactSelect onChange with the k-th chosen value removed
deselectTag(k) ==
  /\ mounted
  /\ k \in DOMAIN selectedTags
  /\ selectedTags' =
       fromOptions([j \in 1 .. Len(selectedTags) - 1 |->
                      toOption(selectedTags[IF j < k THEN j ELSE j + 1])])
  /\ op' = [name |-> "deselectTag", id |-> selectedTags[k].id]
  /\ UNCHANGED <<mounted, storage, uuidCount, notes, tags, title>>

\* ReactSelect onChange with every chosen value removed
clearSelection ==
  /\ mounted
  /\ selectedTags # <<>>
  /\ selectedTags' = fromOptions(<<>>)
  /\ op' = [name |-> "clearSelection", id |-> 0]
  /\ UNCHANGED <<mounted, storage, uuidCount, notes, tags, title>>

\* the NoteData a note form can submit given the available tags
NoteDataInputs(available) ==
  { [title |-> txt.title, markdown |-> txt.markdown, tags |-> ts]
    : txt \in NoteTexts, ts \in TagChoices(available) }

DoCreateNote == \E data \in NoteDataInputs(tags) : onCreateNote(data)

DoUpdateNote ==
  \E id \in NoteIdInputs, data \in NoteDataInputs(tags) : onUpdateNote(id, data)

DoDeleteNote == \E id \in NoteIdInputs : onDeleteNote(id)

DoUpdateTag == \E id \in EditIds, label \in UserLabels : updateTag(id, label)

DoDeleteTag == \E id \in TagIdInputs : deleteTag(id)

DoAddTag == \E id \in EditIds, label \in UserLabels : addTag([id |-> id, label |-> label])

DoSetTitle == \E t \in FilterTitles : setTitle(t)

DoSelectTag == \E i \in 1 .. MaxTags : selectTag(i)

DoDeselectTag == \E k \in 1 .. MaxSelected : deselectTag(k)

\* the collection manager: every handler App passes down
Next ==
  \/ Load
  \/ DoCreateNote
  \/ DoUpdateNote
  \/ DoDeleteNote
  \/ DoUpdateTag
  \/ DoDeleteTag
  \/ DoAddTag

Spec == Init /\ [][Next]_vars

\* the tag handlers alone
NextTags == Load \/ DoUpdateTag \/ DoDeleteTag \/ DoAddTag

SpecTags == Init /\ [][NextTags]_vars

\* the note handlers alone
NextNotes == Load \/ DoCreateNote \/ DoUpdateNote \/ DoDeleteNote

SpecNotes == Init /\ [][NextNotes]_vars

\* the NoteList page with its tag filter, over notes that come and go and
\* tags that are deleted
NextList ==
  \/ Load
  \/ DoCreateNote
  \/ DoUpdateNote
  \/ DoDeleteTag
  \/ DoSelectTag
  \/ DoDeselectTag
  \/ clearSelection

SpecList == Init /\ [][NextList]_vars

\* the NoteList page with its title search, over notes that come and go
NextSearch ==
  \/ Load
  \/ DoCreateNote
  \/ DoUpdateNote
  \/ DoDeleteNote
  \/ DoSetTitle
  \/ DoSelectTag
  \/ DoDeselectTag
  \/ clearSelection

SpecSearch == Init /\ [][NextSearch]_vars

----------------------------------------------------------------------------
(* Properties *)

Distinct(ids) == \A i, j \in DOMAIN ids : i # j => ids[i] # ids[j]

\* s without its entries whose id is id
WithoutId(s, id) == SelectSeq(s, LAMBDA x : x.id # id)

\* C1: once deleteTag(t) has been applied and App has re-rendered, no tag has
\* id t and the tag list is the previous one without t, order kept, nothing
\* added -- also when t was the only tag left.
C1_DeleteTagRemovesExactlyThatTag ==
  [][\A t \in TagIdInputs :
       op' = [name |-> "deleteTag", id |-> t] =>
         /\ t \notin IdsOf(tags')
         /\ tags' = WithoutId(tags, t)]_vars

\* the note with index i is shown by NoteList
Shown(i) == \E k \in DOMAIN view : view[k].id = notes[i].id

\* C2: with an empty title filter, a note is in the filtered view iff its
\* stored tagIds contain every selected tag id.
C2_TagFilterIsSupersetOfSelection ==
  title = <<>> =>
    \A i \in DOMAIN notes :
      Shown(i) <=> IdsOf(selectedTags) \subseteq Range(notes[i].tagIds)

\* two characters that are the same letter, whatever their case
SameLetter(c, d) == c = d \/ {c, d} = {"a", "A"} \/ {c, d} = {"b", "B"}

\* sub occurs in s at some offset, letter case ignored
ContainsIgnoringCase(s, sub) ==
  \E k \in 0 .. Len(s) :
    /\ k + Len(sub) <= Len(s)
    /\ \A i \in 1 .. Len(sub) : SameLetter(s[k + i], sub[i])

\* C3: with an empty tag selection the filtered view is the sub-sequence of
\* the notes whose title contains the typed title, letter case ignored; it is
\* every note when nothing is typed; and typed titles that differ only in
\* letter case give the same view.
C3_TitleFilterIgnoresCase ==
  selectedTags = <<>> =>
    /\ view = SelectSeq(notesWithTags(notes, tags),
                        LAMBDA n : ContainsIgnoringCase(n.title, title))
    /\ [k \in DOMAIN view |-> view[k].id] =
         tagIdsOf(SelectSeq(notes, LAMBDA n : ContainsIgnoringCase(n.title, title)))
    /\ (title = <<>> => view = notesWithTags(notes, tags))
    /\ \A t \in FilterTitles :
         (Len(t) = Len(title) /\ \A i \in DOMAIN t : SameLetter(t[i], title[i])) =>
           filteredNotes(notesWithTags(notes, tags), t, selectedTags) = view

C3_Witness ==
  /\ op.name = "setTitle"
  /\ title = <<"a", "B">>
  /\ selectedTags = <<>>
  /\ Len(notes) = 2
  /\ Len(view) = 1

\* C4: no two notes have the same id; the note onCreateNote has just appended
\* has an id no earlier note has.
C4_NoteIdsUnique ==
  /\ Distinct(tagIdsOf(notes))
  /\ op.name = "onCreateNote" =>
       /\ notes[Len(notes)].id = op.id
       /\ \A i \in 1 .. Len(notes) - 1 : notes[i].id # op.id

C4_Witness ==
  /\ op.name = "onCreateNote"
  /\ Len(notes) = 2

\* C5: no two tags have the same id, whatever tag addTag is given.
C5_TagIdsUnique == Distinct(tagIdsOf(tags))

\* C6: onUpdateNote and onDeleteNote with an id no note has, and updateTag
\* and deleteTag with an id no tag has, leave notes and tags as they were.
C6_AbsentIdIsNoOp ==
  [][/\ (op'.name \in {"onUpdateNote", "onDeleteNote"} /\ op'.id \notin IdsOf(notes))
          => (notes' = notes /\ tags' = tags)
     /\ (op'.name \in {"updateTag", "deleteTag"} /\ op'.id \notin IdsOf(tags))
          => (notes' = notes /\ tags' = tags)]_vars

\* updateTag never removes a tag: the id it was given was absent before too
C6_Witness ==
  /\ op.name = "updateTag"
  /\ op.id \notin IdsOf(tags)
  /\ Len(notes) = 2

\* C7: deleteTag leaves the notes as they were, tagIds included.
C7_DeleteTagKeepsNotes ==
  [][op'.name = "deleteTag" => notes' = notes]_vars

C7_Witness ==
  /\ op.name = "deleteTag"
  /\ op.id \notin IdsOf(tags)
  /\ \E i \in DOMAIN notes : op.id \in Range(notes[i].tagIds)

\* C8 as stated: started on empty (or malformed) storage, once App has loaded
\* and rendered, notes and tags are both empty.
C8_LoadedCollectionsAreEmpty ==
  op.name = "load" => (notes = <<>> /\ tags = <<>>)

\* C8 amended: started on empty (or malformed) storage, once App has loaded
\* and rendered, notes is empty and tags holds the four default tags Work,
\* Important, Personal, Ideas, in that order, with four different ids.
C8_LoadedTagsAreTheDefaults ==
  op.name = "load" =>
    /\ notes = <<>>
    /\ [i \in DOMAIN tags |-> tags[i].label] = <<"Work", "Important", "Personal", "Ideas">>
    /\ Distinct(tagIdsOf(tags))

C8_Witness ==
  /\ mounted
  /\ op.name = "load"
  /\ storage.TAGS.kind = "json"
  /\ Len(tags) = 4

\* number of tags among the first j whose id is in ids
Rank(ts, ids, j) == Cardinality({ k \in 1 .. j : ts[k].id \in ids })

\* C9: the display tags of a note are the tags of the tag list whose id is in
\* the note's tagIds, in tag-list order and with their current labels; an id
\* no tag has gives no display tag.
C9_DisplayTagsAreTheExistingOnes ==
  \A i \in DOMAIN notes :
    LET shown == notesWithTags(notes, tags)[i].tags
        ids   == Range(notes[i].tagIds)
    IN  /\ Len(shown) = Rank(tags, ids, Len(tags))
        /\ \A j \in DOMAIN tags :
             tags[j].id \in ids => shown[Rank(tags, ids, j)] = tags[j]

\* a tag deleted and added again with the same id (it is now last in the tag
\* list) is shown on a note that references it
C9_Witness ==
  /\ op = [name |-> "addTag", id |-> 1]
  /\ Len(tags) > 1
  /\ \A j \in DOMAIN tags : tags[j].id = 1 <=> j = Len(tags)
  /\ \E i \in DOMAIN notes :
       /\ notes[i].tagIds = <<1, 2>>
       /\ tagIdsOf(notesWithTags(notes, tags)[i].tags) = <<2, 1>>

\* new is old with the note id rewritten from data and nothing else changed
UpdatedOnly(old, new, id, data) ==
  /\ Len(new) = Len(old)
  /\ \A i \in DOMAIN old :
       IF old[i].id = id
         THEN /\ new[i].id = id
              /\ new[i].title = data.title
              /\ new[i].markdown = data.markdown
              /\ new[i].tagIds = [k \in DOMAIN data.tags |-> data.tags[k].id]
         ELSE new[i] = old[i]

\* new is old with one note built from data added at the end
AppendedOne(old, new, data) ==
  /\ Len(new) = Len(old) + 1
  /\ \A i \in DOMAIN old : new[i] = old[i]
  /\ new[Len(new)].title = data.title
  /\ new[Len(new)].markdown = data.markdown
  /\ new[Len(new)].tagIds = [k \in DOMAIN data.tags |-> data.tags[k].id]

\* new is old with the one note of that id taken out
RemovedOnly(old, new, id) ==
  IF id \in IdsOf(old)
    THEN LET i == CHOOSE k \in DOMAIN old : old[k].id = id
         IN  new = SubSeq(old, 1, i - 1) \o SubSeq(old, i + 1, Len(old))
    ELSE new = old

\* C10: onUpdateNote on an existing id rewrites that note only (same length
\* and order, id and position kept, title, body and tagIds from data) and
\* leaves the tags alone; onCreateNote appends exactly one note; onDeleteNote
\* removes exactly the note of the given id.
C10_NoteMutationsAreLocal ==
  [][/\ \A id \in NoteIdInputs, data \in NoteDataInputs(tags) :
          (id \in IdsOf(notes) /\ onUpdateNote(id, data)) =>
            (UpdatedOnly(notes, notes', id, data) /\ tags' = tags)
     /\ \A data \in NoteDataInputs(tags) :
          onCreateNote(data) => (AppendedOne(notes, notes', data) /\ tags' = tags)
     /\ op'.name = "onDeleteNote" =>
          (RemovedOnly(notes, notes', op'.id) /\ tags' = tags)]_vars

C10_Witness ==
  /\ op = [name |-> "onUpdateNote", id |-> 5]
  /\ Len(notes) = 2
  /\ notes[1].id = 5
  /\ notes[1].tagIds = <<2, 1>>
  /\ notes[1].title # notes[2].title

====
